---- MODULE Spec2Model ----
(***************************************************************************)
(* Model of the tuning script tune_relay_int8_cuda.py (tune_and_evaluate   *)
(* and tune_tasks) and of the two benchmark scripts from_lib.py and        *)
(* from_lib_fp32.py.                                                       *)
(*                                                                         *)
(* The autotvm library is outside the repository.  Its calls are modelled  *)
(* at their call sites by their effect on the log files:                   *)
(*   - tuner.tune measures at most n_trial configurations, one after the   *)
(*     other; the log_to_file callback appends the record of a measured    *)
(*     trial to the temporary log, creating the file on the first append;  *)
(*     a trial may fail, and whether a failed trial leaves an (error)      *)
(*     record is a property of the library, fixed per run                  *)
(*     (log_failed_trials);                                                *)
(*   - tune stops early once early_stopping trials have passed since the   *)
(*     best one; a falsy early_stopping (None, 0) switches this off;       *)
(*   - record.pick_best reads the input log (FileNotFoundError when it is  *)
(*     missing) and writes, truncating, the lowest-cost successful record  *)
(*     of each task to the output log;                                     *)
(*   - os.remove raises FileNotFoundError on a missing file.               *)
(***************************************************************************)
EXTENDS Integers, Sequences, FiniteSets, TLC

(* ------------------------------ bounds -------------------------------- *)
MaxTasks == 2
MaxNTrial == 4

SpaceSizes == {1, 5}
Costs == {1, 2}

(* ----------------------- script configuration ------------------------- *)
DefaultModel == "gprox_3"
DefaultNTrial == 2
DefaultTuner == "xgb_knob"

KnownModels ==
  {"resnet_50", "mob_v1", "mob_v1_0_5", "mob_v2", "mob_v2_0_5",
   "mob_v2_0_75", "mob_v2_0_25", "xce_r", "gprox_3"}

ValidTuners ==
  {"xgb", "xgb_knob", "xgb_itervar", "xgb_curve", "xgb_rank",
   "xgb_rank_knob", "xgb_rank_itervar", "xgb_rank_curve", "xgb_rank_binary",
   "xgb_rank_binary_knob", "xgb_rank_binary_itervar",
   "xgb_rank_binary_curve", "ga", "random", "gridsearch"}

use_transfer_learning == TRUE

VARIABLES
  MODEL_NAME,         \* sys.argv[1] or the default
  n_trial,            \* int(sys.argv[2]) or the default
  tuning_algo,        \* sys.argv[3] or the default
  tasks,              \* the tasks extract_from_program yields, input order
  log_failed_trials,  \* library: does a failed trial leave a record
  fs,                 \* log files: path -> sequence of records
  builds,             \* exported libraries: path -> records compiled with
  pc,                 \* position of the tuning script
  err,                \* the exception that ended the script, "" if none
  i,                  \* enumerate index of the task loop
  tuner_obj,          \* the tuner of the current task
  tsk_trial,          \* trial count of the current task
  t_i,                \* tuner: trials measured so far
  best_iter,          \* tuner: index of the best trial
  best_cost,          \* tuner: cost of the best trial, 0 if none yet
  tune_calls,         \* the calls of tuner_obj.tune, in order
  fs_events,          \* file creations, writes and removals, in order
  tmp_at_entry,       \* the temporary log found when tune_tasks was called
  lib,                \* result of relay.build, records applied
  harness             \* the benchmark script run afterwards: its load_module

vars ==
  <<MODEL_NAME, n_trial, tuning_algo, tasks, log_failed_trials, fs, builds,
    pc, err, i, tuner_obj, tsk_trial, t_i, best_iter, best_cost, tune_calls,
    fs_events, tmp_at_entry, lib, harness>>

config == <<MODEL_NAME, n_trial, tuning_algo, tasks, log_failed_trials>>
tunerState == <<tuner_obj, tsk_trial, t_i, best_iter, best_cost>>

(* ------------------------------ helpers -------------------------------- *)
Min(a, b) == IF a < b THEN a ELSE b

\* faulty variant: the tasks taken in input order
Reverse_forward(s) == s

Reverse(s) == [k \in 1..Len(s) |-> s[Len(s) - k + 1]]

Exists(f, path) == path \in DOMAIN f

WriteFile(f, path, content) ==
  [p \in DOMAIN f \cup {path} |-> IF p = path THEN content ELSE f[p]]

RemoveFile(f, path) == [p \in DOMAIN f \ {path} |-> f[p]]

AppendFile(f, path, rec) ==
  WriteFile(f, path, IF Exists(f, path) THEN Append(f[path], rec) ELSE <<rec>>)

(* ------------------------------- paths --------------------------------- *)
LogFile(model, algo, trials) ==
  "./logs/" \o model \o ".log" \o "_" \o algo \o "_" \o ToString(trials)

log_file == LogFile(MODEL_NAME, tuning_algo, n_trial)

TmpLogFile(log_filename) == log_filename \o ".tmp"

\* faulty variant: tune_tasks left with its default log_filename
log_filename_default == "tuning.log"

\* tuning_option["log_filename"], passed to tune_tasks
log_filename == log_file

tmp_log_file == TmpLogFile(log_filename)

ExportPath(model, algo, trials) ==
  "./builds/" \o model \o "_" \o algo \o "_" \o ToString(trials) \o ".so"

early_stopping == (n_trial \div 2) - 1

n_iters == 50

FromLibPath == "./builds/" \o "xce_r" \o "_" \o ToString(n_iters) \o ".so"

FromLibFp32Path(model, algo, trials) ==
  "./builds_fp32/" \o model \o "_" \o algo \o "_fp32_" \o ToString(trials)
    \o ".so"

(* ------------------------------ records -------------------------------- *)
Record(task, cost, error_no, run) ==
  [task |-> task, cost |-> cost, error_no |-> error_no, run |-> run]

\* what an earlier run of the script left in a log
OldLog == <<Record(1, 1, 0, "previous")>>

\* record k is the first lowest-cost successful record of its task
IsBest(log, k) ==
  /\ log[k].error_no = 0
  /\ \A j \in 1..Len(log) :
       (log[j].task = log[k].task /\ log[j].error_no = 0)
         => \/ log[k].cost < log[j].cost
            \/ (log[k].cost = log[j].cost /\ k <= j)

RECURSIVE PickFrom(_, _)
PickFrom(log, k) ==
  IF k > Len(log) THEN <<>>
  ELSE (IF IsBest(log, k) THEN <<log[k]>> ELSE <<>>) \o PickFrom(log, k + 1)

pick_best(log) == PickFrom(log, 1)

(* ------------------------------- tuners -------------------------------- *)
NoTuner == [cls |-> "none"]

Tuner(cls, loss_type, feature_type, tsk) ==
  [cls |-> cls, loss_type |-> loss_type, feature_type |-> feature_type,
   task |-> tsk.id, history |-> <<>>]

CreateTunerObj(tuner, tsk) ==
  CASE tuner = "xgb" -> Tuner("XGBTuner", "reg", "default", tsk)
    [] tuner = "xgb_knob" -> Tuner("XGBTuner", "reg", "knob", tsk)
    [] tuner = "xgb_itervar" -> Tuner("XGBTuner", "reg", "itervar", tsk)
    [] tuner = "xgb_curve" -> Tuner("XGBTuner", "reg", "curve", tsk)
    [] tuner = "xgb_rank" -> Tuner("XGBTuner", "rank", "default", tsk)
    [] tuner = "xgb_rank_knob" -> Tuner("XGBTuner", "rank", "knob", tsk)
    [] tuner = "xgb_rank_itervar" -> Tuner("XGBTuner", "rank", "itervar", tsk)
    [] tuner = "xgb_rank_curve" -> Tuner("XGBTuner", "rank", "curve", tsk)
    [] tuner = "xgb_rank_binary" ->
         Tuner("XGBTuner", "rank-binary", "default", tsk)
    [] tuner = "xgb_rank_binary_knob" ->
         Tuner("XGBTuner", "rank-binary", "knob", tsk)
    [] tuner = "xgb_rank_binary_itervar" ->
         Tuner("XGBTuner", "rank-binary", "itervar", tsk)
    [] tuner = "xgb_rank_binary_curve" ->
         Tuner("XGBTuner", "rank-binary", "curve", tsk)
    [] tuner = "ga" -> Tuner("GATuner", "none", "none", tsk)
    [] tuner = "random" -> Tuner("RandomTuner", "none", "none", tsk)
    [] tuner = "gridsearch" -> Tuner("GridSearchTuner", "none", "none", tsk)
    [] OTHER -> NoTuner

\* faulty variant: the requested count passed on without the cap
TskTrial_uncapped(requested, tsk) == requested

TskTrial(requested, tsk) == Min(requested, tsk.space)

(* --------------------------- errors and events ------------------------- *)
NoError == [exc |-> "", at |-> ""]

Raise(exc, at) ==
  /\ pc' = "error"
  /\ err' = [exc |-> exc, at |-> at]

Event(op, path) == [op |-> op, path |-> path]

NoLib == [log |-> "", records |-> <<>>]

NotRun == [script |-> "", path |-> "", found |-> FALSE]

(* ----------------------------- initial state --------------------------- *)
ModelNames == {DefaultModel, "mob_v9"}
TunerNames == {DefaultTuner, "bayes"}

TaskSeqs ==
  UNION {[1..n -> SpaceSizes] : n \in 0..MaxTasks}

MakeTasks(spaces) == [k \in 1..Len(spaces) |-> [id |-> k, space |-> spaces[k]]]

InitialFs(final, tmp) ==
  {[p \in D |-> OldLog] : D \in SUBSET {final, tmp}}

InitRest ==
  /\ fs \in InitialFs(log_file, tmp_log_file)
  /\ builds = <<>>
  /\ pc = "start"
  /\ err = NoError
  /\ i = 0
  /\ tuner_obj = NoTuner
  /\ tsk_trial = 0
  /\ t_i = 0
  /\ best_iter = 0
  /\ best_cost = 0
  /\ tune_calls = <<>>
  /\ fs_events = <<>>
  /\ tmp_at_entry = [exists |-> FALSE, records |-> <<>>]
  /\ lib = NoLib
  /\ harness = NotRun

Init ==
  /\ MODEL_NAME \in ModelNames
  /\ n_trial \in 0..MaxNTrial
  /\ tuning_algo \in TunerNames
  /\ tasks \in {MakeTasks(s) : s \in TaskSeqs}
  /\ log_failed_trials \in BOOLEAN
  /\ InitRest

\* every model and tuner name of the scripts, at most one task
InitArgv ==
  /\ MODEL_NAME \in KnownModels \cup ModelNames
  /\ n_trial \in 0..MaxNTrial
  /\ tuning_algo \in ValidTuners \cup TunerNames
  /\ tasks \in {MakeTasks(s) : s \in {<<>>, <<1>>, <<5>>}}
  /\ log_failed_trials \in BOOLEAN
  /\ InitRest

(* ------------------------- tune_and_evaluate --------------------------- *)

\* get_network_keras_or_torch raises on a model name it does not know (model
\* is never bound); otherwise extract_from_program yields tasks, and the loop
\* over them recreates some of them in place, keeping their order
ExtractTasks ==
  /\ pc = "start"
  /\ IF MODEL_NAME \in KnownModels
       THEN pc' = "tune_tasks" /\ err' = err
       ELSE Raise("UnboundLocalError", "get_network")
  /\ UNCHANGED <<config, fs, builds, i, tunerState, tune_calls, fs_events,
                 tmp_at_entry, lib, harness>>

(* ------------------------------ tune_tasks ----------------------------- *)
\* faulty variant: the temporary log of a previous run is kept
RemoveOldTmp_keep ==
  /\ pc = "tune_tasks"
  /\ tmp_at_entry' =
       [exists |-> Exists(fs, tmp_log_file),
        records |-> IF Exists(fs, tmp_log_file) THEN fs[tmp_log_file] ELSE <<>>]
  /\ i' = 0
  /\ pc' = "for"
  /\ UNCHANGED <<config, fs, builds, err, tunerState, tune_calls, fs_events,
                 lib, harness>>

\* remove the temporary log a previous run left
RemoveOldTmp ==
  /\ pc = "tune_tasks"
  /\ IF Exists(fs, tmp_log_file)
       THEN /\ fs' = RemoveFile(fs, tmp_log_file)
            /\ fs_events' = Append(fs_events, Event("remove", tmp_log_file))
       ELSE UNCHANGED <<fs, fs_events>>
  /\ tmp_at_entry' =
       [exists |-> Exists(fs, tmp_log_file),
        records |-> IF Exists(fs, tmp_log_file) THEN fs[tmp_log_file] ELSE <<>>]
  /\ i' = 0
  /\ pc' = "for"
  /\ UNCHANGED <<config, builds, err, tunerState, tune_calls, lib, harness>>

\* for i, tsk in enumerate(reversed(tasks)): builds the tuner or raises
CreateTuner ==
  /\ pc = "for"
  /\ i < Len(tasks)
  /\ LET obj == CreateTunerObj(tuning_algo, Reverse(tasks)[i + 1])
     IN IF obj = NoTuner
          THEN Raise("ValueError", "tune_tasks") /\ UNCHANGED tuner_obj
          ELSE /\ tuner_obj' = obj
               /\ pc' = "load_history"
               /\ err' = err
  /\ UNCHANGED <<config, fs, builds, i, tsk_trial, t_i, best_iter, best_cost,
                 tune_calls, fs_events, tmp_at_entry, lib, harness>>

\* faulty variant: the history read from the final log instead of the temporary one
LoadHistory_final ==
  /\ pc = "load_history"
  /\ IF use_transfer_learning /\ Exists(fs, log_filename)
       THEN tuner_obj' = [tuner_obj EXCEPT !.history = fs[log_filename]]
       ELSE UNCHANGED tuner_obj
  /\ pc' = "tune"
  /\ UNCHANGED <<config, fs, builds, err, i, tsk_trial, t_i, best_iter,
                 best_cost, tune_calls, fs_events, tmp_at_entry, lib,
                 harness>>

LoadHistory ==
  /\ pc = "load_history"
  /\ IF use_transfer_learning /\ Exists(fs, tmp_log_file)
       THEN tuner_obj' = [tuner_obj EXCEPT !.history = fs[tmp_log_file]]
       ELSE UNCHANGED tuner_obj
  /\ pc' = "tune"
  /\ UNCHANGED <<config, fs, builds, err, i, tsk_trial, t_i, best_iter,
                 best_cost, tune_calls, fs_events, tmp_at_entry, lib,
                 harness>>

\* tsk_trial = min(n_trial, len(tsk.config_space)); tuner_obj.tune(...)
BeginTune ==
  /\ pc = "tune"
  /\ LET n == TskTrial(n_trial, Reverse(tasks)[i + 1])
     IN /\ tsk_trial' = n
        /\ tune_calls' =
             Append(tune_calls,
                    [task |-> tuner_obj.task, n_trial |-> n,
                     early_stopping |-> early_stopping,
                     progress_total |-> n, log_to |-> tmp_log_file,
                     history |-> tuner_obj.history])
  /\ t_i' = 0
  /\ best_iter' = 0
  /\ best_cost' = 0
  /\ pc' = "measuring"
  /\ UNCHANGED <<config, fs, builds, err, i, tuner_obj, fs_events,
                 tmp_at_entry, lib,
                 harness>>

EarlyStopped(measured, best) ==
  early_stopping # 0 /\ measured >= best + early_stopping

\* one measured trial of tuner_obj.tune and its callbacks
Trial ==
  /\ pc = "measuring"
  /\ t_i < tsk_trial
  /\ \E ok \in BOOLEAN, cost \in Costs :
       /\ ok \/ cost = 1
       /\ LET better == ok /\ (best_cost = 0 \/ cost < best_cost)
              logged == ok \/ log_failed_trials
              rec == Record(tuner_obj.task, cost, IF ok THEN 0 ELSE 1, "this")
          IN /\ best_cost' = IF better THEN cost ELSE best_cost
             /\ best_iter' = IF better THEN t_i ELSE best_iter
             /\ t_i' = t_i + 1
             /\ fs' = IF logged THEN AppendFile(fs, tmp_log_file, rec) ELSE fs
             /\ fs_events' =
                  IF logged /\ ~Exists(fs, tmp_log_file)
                    THEN Append(fs_events, Event("create", tmp_log_file))
                    ELSE fs_events
             /\ IF EarlyStopped(t_i', best_iter')
                  THEN pc' = "for" /\ i' = i + 1
                  ELSE pc' = "measuring" /\ i' = i
  /\ UNCHANGED <<config, builds, err, tuner_obj, tsk_trial, tune_calls,
                 tmp_at_entry, lib,
                 harness>>

\* the trial budget is used up
TuneReturn ==
  /\ pc = "measuring"
  /\ t_i >= tsk_trial
  /\ pc' = "for"
  /\ i' = i + 1
  /\ UNCHANGED <<config, fs, builds, err, tunerState, tune_calls, fs_events,
                 tmp_at_entry, lib, harness>>

\* autotvm.record.pick_best(tmp_log_file, log_filename)
PickBest ==
  /\ pc = "for"
  /\ i >= Len(tasks)
  /\ IF Exists(fs, tmp_log_file)
       THEN /\ fs' = WriteFile(fs, log_filename, pick_best(fs[tmp_log_file]))
            /\ fs_events' = Append(fs_events, Event("write", log_filename))
            /\ pc' = "remove_tmp"
            /\ err' = err
       ELSE /\ Raise("FileNotFoundError", "tune_tasks")
            /\ UNCHANGED <<fs, fs_events>>
  /\ UNCHANGED <<config, builds, i, tunerState, tune_calls, tmp_at_entry, lib,
                 harness>>

\* faulty variant: the temporary log left behind
RemoveTmp_keep ==
  /\ pc = "remove_tmp"
  /\ pc' = "compile"
  /\ UNCHANGED <<config, fs, builds, err, i, tunerState, tune_calls,
                 fs_events, tmp_at_entry, lib, harness>>

\* os.remove(tmp_log_file)
RemoveTmp ==
  /\ pc = "remove_tmp"
  /\ IF Exists(fs, tmp_log_file)
       THEN /\ fs' = RemoveFile(fs, tmp_log_file)
            /\ fs_events' = Append(fs_events, Event("remove", tmp_log_file))
            /\ pc' = "compile"
            /\ err' = err
       ELSE /\ Raise("FileNotFoundError", "tune_tasks")
            /\ UNCHANGED <<fs, fs_events>>
  /\ UNCHANGED <<config, builds, i, tunerState, tune_calls, tmp_at_entry, lib,
                 harness>>

(* ------------------------ compile and export --------------------------- *)
\* with autotvm.apply_history_best(log_file): relay.build_module.build(...)
Compile ==
  /\ pc = "compile"
  /\ IF Exists(fs, log_file)
       THEN /\ lib' = [log |-> log_file, records |-> fs[log_file]]
            /\ pc' = "export"
            /\ err' = err
       ELSE Raise("FileNotFoundError", "compile") /\ UNCHANGED lib
  /\ UNCHANGED <<config, fs, builds, i, tunerState, tune_calls, fs_events,
                 tmp_at_entry, harness>>

\* lib.export_library(...)
Export ==
  /\ pc = "export"
  /\ builds' =
       WriteFile(builds, ExportPath(MODEL_NAME, tuning_algo, n_trial), lib)
  /\ pc' = "done"
  /\ UNCHANGED <<config, fs, err, i, tunerState, tune_calls, fs_events,
                 tmp_at_entry, lib,
                 harness>>

(* ------------------------- benchmark scripts --------------------------- *)
LoadModule(script, path) ==
  [script |-> script, path |-> path, found |-> Exists(builds, path)]

\* from_lib.py, run after the tuning script: load_module(path_lib)
FromLib ==
  /\ pc = "done"
  /\ harness = NotRun
  /\ harness' = LoadModule("from_lib.py", FromLibPath)
  /\ UNCHANGED <<config, fs, builds, pc, err, i, tunerState, tune_calls,
                 fs_events, tmp_at_entry, lib>>

\* from_lib_fp32.py, run with the arguments of the tuning script
FromLibFp32 ==
  /\ pc = "done"
  /\ harness = NotRun
  /\ harness' =
       LoadModule("from_lib_fp32.py",
                  FromLibFp32Path(MODEL_NAME, tuning_algo, n_trial))
  /\ UNCHANGED <<config, fs, builds, pc, err, i, tunerState, tune_calls,
                 fs_events, tmp_at_entry, lib>>

Next ==
  \/ ExtractTasks
  \/ RemoveOldTmp
  \/ CreateTuner
  \/ LoadHistory
  \/ BeginTune
  \/ Trial
  \/ TuneReturn
  \/ PickBest
  \/ RemoveTmp
  \/ Compile
  \/ Export
  \/ FromLib
  \/ FromLibFp32

Spec == Init /\ [][Next]_vars

SpecArgv == InitArgv /\ [][Next]_vars

(* ============================== claims ================================= *)
TuneTasksReturned ==
  \/ pc \in {"compile", "export", "done"}
  \/ pc = "error" /\ err.at = "compile"

TuneTasksRaised == pc = "error" /\ err.at = "tune_tasks"

TuneTasksOver == TuneTasksReturned \/ TuneTasksRaised

\* tune_tasks has been called and has dealt with the old temporary log
PastEntry ==
  /\ pc \notin {"start", "tune_tasks"}
  /\ ~(pc = "error" /\ err.at = "get_network")

HasEvent(op, path) ==
  \E k \in 1..Len(fs_events) : fs_events[k] = Event(op, path)

TmpLog == IF Exists(fs, tmp_log_file) THEN fs[tmp_log_file] ELSE <<>>

\* C1 (as claimed): with a tuner name outside the enumerated set, tune_tasks
\* ends by raising ValueError, whatever the tasks, having made no tune call
\* and having created or written no log file.
C1_InvalidTunerRaises ==
  (tuning_algo \notin ValidTuners /\ TuneTasksOver)
    => /\ err = [exc |-> "ValueError", at |-> "tune_tasks"]
       /\ tune_calls = <<>>
       /\ \A k \in 1..Len(fs_events) : fs_events[k].op = "remove"

C3_AlwaysWritesFinalLog ==
  (tuning_algo \in ValidTuners /\ TuneTasksOver)
    => /\ TuneTasksReturned
       /\ Exists(fs, log_filename)
       /\ ~Exists(fs, tmp_log_file)
       /\ Len(fs_events) >= 2
       /\ fs_events[Len(fs_events) - 1] = Event("write", log_filename)
       /\ fs_events[Len(fs_events)] = Event("remove", tmp_log_file)

\* C4: with a valid tuner name the k-th tune call is for task t[N-k+1]; once
\* the loop is left every task has been tuned exactly once; the trials of one
\* task are all measured before the next tune call is made (a task's id is its
\* position in the input, so the records of the temporary log never go back
\* to a later position).
C4_ReversedOrder ==
  /\ Len(tune_calls) <= Len(tasks)
  /\ \A k \in 1..Len(tune_calls) :
       tune_calls[k].task = tasks[Len(tasks) - k + 1].id
  /\ (tuning_algo \in ValidTuners /\ TuneTasksOver)
       => Len(tune_calls) = Len(tasks)
  /\ pc = "measuring"
       => /\ Len(tune_calls) = i + 1
          /\ tuner_obj.task = tune_calls[i + 1].task
  /\ PastEntry
       => LET log == TmpLog
          IN \A a \in 1..Len(log) :
               /\ tasks[log[a].task].id = log[a].task
               /\ a < Len(log) => log[a].task >= log[a + 1].task

C4_Witness ==
  /\ pc = "done"
  /\ Len(tasks) = MaxTasks
  /\ Len(tune_calls) = MaxTasks
  /\ tune_calls[1].task = MaxTasks
  /\ tune_calls[MaxTasks].task = 1

\* C5: the trial count of every tune call, and the total of its progress
\* indicator, is the smaller of the requested n_trial and the size of the
\* task's configuration space; no more trials than that are measured.
C5_TrialCap ==
  /\ \A k \in 1..Len(tune_calls) :
       LET space == tasks[Len(tasks) - k + 1].space
           n == tune_calls[k].n_trial
       IN /\ n <= space
          /\ n <= n_trial
          /\ n = space \/ n = n_trial
          /\ space < n_trial => n = space
          /\ tune_calls[k].progress_total = n
  /\ pc = "measuring"
       => /\ tsk_trial = tune_calls[i + 1].n_trial
          /\ t_i <= tsk_trial

C5_Witness ==
  /\ Len(tune_calls) >= 1
  /\ tune_calls[1].n_trial < n_trial
  /\ tune_calls[1].n_trial >= 1
  /\ pc = "measuring"
  /\ t_i = tsk_trial

(* the end-to-end scenario: one task of search-space size 5, n_trial = 2 *)
Scenario ==
  /\ MODEL_NAME \in KnownModels
  /\ tuning_algo \in ValidTuners
  /\ Len(tasks) = 1
  /\ tasks[1].space = 5
  /\ n_trial = 2

Successful(log) == SelectSeq(log, LAMBDA r : r.error_no = 0)

LayoutLogPath(model, algo, trials) ==
  "./logs/" \o model \o "_" \o algo \o "_" \o ToString(trials) \o ".log"

\* C7 (as claimed): the final log is written at
\* ./logs/<model>_<tuner>_<trials>.log and the temporary log is created and
\* removed at that path with ".tmp" appended.
C7_LogPaths ==
  \A k \in 1..Len(fs_events) :
    LET final == LayoutLogPath(MODEL_NAME, tuning_algo, n_trial)
    IN IF fs_events[k].op = "write"
         THEN fs_events[k].path = final
         ELSE fs_events[k].path = final \o ".tmp"

\* C8 (as claimed): the tuning script exports to
\* ./builds/<model>_<tuner>_<trials>.so, from_lib.py loads that very file for
\* the same configuration, and from_lib_fp32.py loads
\* ./builds_fp32/<model>_<tuner>_fp32_<trials>.so.
C8_HarnessLoadsExport ==
  LET so == "./builds/" \o MODEL_NAME \o "_" \o tuning_algo \o "_"
              \o ToString(n_trial) \o ".so"
      so32 == "./builds_fp32/" \o MODEL_NAME \o "_" \o tuning_algo \o "_fp32_"
                \o ToString(n_trial) \o ".so"
  IN /\ pc = "done" => DOMAIN builds = {so}
     /\ harness.script = "from_lib.py" => harness.path = so /\ harness.found
     /\ harness.script = "from_lib_fp32.py" => harness.path = so32

\* C9: compilation reads the log only after tune_tasks of the same run wrote
\* it, at the very path tune_tasks wrote, and what is exported was compiled
\* with the records of this run; after an error before compilation nothing is
\* compiled and nothing exported.
C9_CompileAfterTuning ==
  /\ pc = "compile"
       => /\ Len(fs_events) >= 2
          /\ fs_events[Len(fs_events) - 1] = Event("write", log_file)
          /\ Exists(fs, log_file)
  /\ lib # NoLib
       => /\ pc \in {"export", "done"}
          /\ lib.log = log_file
          /\ HasEvent("write", lib.log)
          /\ lib.records = fs[lib.log]
          /\ \A k \in 1..Len(lib.records) : lib.records[k].run = "this"
  /\ \A p \in DOMAIN builds : builds[p] = lib /\ lib # NoLib /\ pc = "done"
  /\ pc = "done" => DOMAIN builds # {}
  /\ (pc = "error" /\ err.at \in {"get_network", "tune_tasks"})
       => lib = NoLib /\ DOMAIN builds = {}

C9_Witness ==
  /\ pc = "done"
  /\ tmp_at_entry.exists
  /\ \E p \in DOMAIN builds : Len(builds[p].records) = 1
  /\ HasEvent("write", log_file)

\* the tasks of the tune calls made before call k
EarlierTasks(k) == {tune_calls[j].task : j \in 1..(k - 1)}

====
